---- MODULE Spec2Model ----
(***************************************************************************)
(* A model of honeypot.c: the telnet option negotiation (send_command,     *)
(* set_options, negotiate_telnet), the line editor (readline), the         *)
(* handshake timer (alarm / SIGALRM_handler) and the session loop of       *)
(* handle_connection, for one forked connection.                           *)
(*                                                                         *)
(* Every blocking getc(input) is the start of one action: an action runs   *)
(* the code from one getc to the next one.  The byte the peer delivers is  *)
(* drawn from a small set per read site; EOF stands for the end of the     *)
(* peer's stream.  A signal is delivered where the process waits or        *)
(* inside the step it would take next, also inside the handler of the      *)
(* other signal; the handler that runs ends the process, with what its     *)
(* stdio calls make of the output buffer, or waits for ever for a lock.    *)
(* The peer may close the connection at any point: the next write to it    *)
(* raises SIGPIPE, which ends the process.                                 *)
(***************************************************************************)
EXTENDS Integers, Sequences, FiniteSets, TLC

(***************************************************************************)
(* Bounds of the model.  The code's buffers hold 1024 bytes; the model     *)
(* keeps the code's arithmetic (size - 1, sizeof(sb) - 1) and shrinks the  *)
(* sizes.                                                                  *)
(***************************************************************************)
\* sizeof(sb) and sizeof(term) in negotiate_telnet (1024 in the code)
SbSize == 4
\* sizeof(username) and sizeof(password) in handle_connection (1024 in the code)
LineSize == 3
\* login attempts (turns of the while (1) of handle_connection) the model follows
MaxAttempts == 2
\* bytes one readline call consumes at most in the model
MaxFieldIn == 5

(***************************************************************************)
(* telnet.h (included at honeypot.c:33): command and option codes.         *)
(***************************************************************************)
IAC == 255
DONT == 254
DO == 253
WONT == 252
WILL == 251
SB == 250
NOP == 241
SE == 240
ECHO == 1
SGA == 3
TTYPE == 24
NAWS == 31
LINEMODE == 34
NEW_ENVIRON == 39
SEND == 1

\* stdio's EOF, the value getc returns at the end of the stream
EOF == -1
\* exit codes of stdlib.h
EXIT_SUCCESS == 0
EXIT_FAILURE == 1

Byte == 0..255
\* the index range of the four option tables, unsigned char [256]
Options == 0..255

\* assignment of an int to an unsigned char: "i = getc(input)", "c = getc(input)"
ToUChar(x) == x % 256

\* the values a plain char holding byte b converts to as an int
\* ("terminal_width = sb[2]"): char is signed or unsigned, as the build has it
CharToInt(b) == {IF b >= 128 THEN b - 256 ELSE b, b}

\* the protocol's NAWS width field: two bytes, high then low (RFC 1073)
NawsWidth(hi, lo) == hi * 256 + lo

\* newline(n): n times \r \000 \n
RECURSIVE newline(_)
newline(n) == IF n <= 0 THEN <<>> ELSE <<13, 0, 10>> \o newline(n - 1)

\* printf's %d of a non-negative int, as ASCII digits
RECURSIVE Decimal(_)
Decimal(n) == IF n < 10 THEN <<48 + n>> ELSE Decimal(n \div 10) \o <<48 + (n % 10)>>

\* the C string held in array a (a function on 0..size-1) from index from on:
\* the bytes before the first zero
RECURSIVE CStr(_, _, _)
CStr(a, from, size) ==
    IF from >= size \/ a[from] = 0 THEN <<>>
    ELSE <<a[from]>> \o CStr(a, from + 1, size)

\* strncpy(term, &sb[2], sizeof(term) - 1); term[sizeof(term) - 1] = 0, as the
\* string term then holds
TermOf(sbuf) ==
    LET s == CStr(sbuf, 2, SbSize)
    IN  IF Len(s) > SbSize - 1 THEN SubSeq(s, 1, SbSize - 1) ELSE s

TxtShowCursor ==
    <<27, 91, 63, 50, 53, 104>>
TxtHideCursor ==
    <<27, 91, 63, 50, 53, 108>>
TxtReset ==
    <<27, 91, 63, 50, 53, 104, 27, 91, 48, 109, 27, 91, 72, 27, 91, 50, 74>>
TxtRealClient ==
    <<27, 91, 49, 59, 51, 49, 109, 42, 42, 42, 32, 89, 111, 117, 32, 109, 117, 115,
       116, 32, 99, 111, 110, 110, 101, 99, 116, 32, 117, 115, 105, 110, 103, 32, 97, 32,
       114, 101, 97, 108, 32, 116, 101, 108, 110, 101, 116, 32, 99, 108, 105, 101, 110, 116,
       46, 32, 42, 42, 42, 27, 91, 48, 109>>
TxtTitle ==
    <<27, 107, 87, 101, 108, 99, 111, 109, 101, 32, 116, 111, 32, 107, 101, 120, 101, 99,
       46, 99, 111, 109, 27, 92, 27, 93, 49, 59, 87, 101, 108, 99, 111, 109, 101, 32,
       116, 111, 32, 107, 101, 120, 101, 99, 46, 99, 111, 109, 7, 27, 93, 50, 59, 87,
       101, 108, 99, 111, 109, 101, 32, 116, 111, 32, 107, 101, 120, 101, 99, 46, 99, 111,
       109, 7>>
TxtClear ==
    <<27, 91, 72, 27, 91, 50, 74, 27, 91, 63, 50, 53, 108>>
TxtHeading ==
    <<32, 32, 32, 32, 32, 32, 32, 32, 32, 32, 32, 32, 32, 32, 32, 32, 32, 32,
       27, 91, 49, 109, 107, 101, 120, 101, 99, 46, 99, 111, 109, 32, 65, 100, 109, 105,
       110, 105, 115, 116, 114, 97, 116, 105, 111, 110, 32, 67, 111, 110, 115, 111, 108, 101,
       27, 91, 48, 109>>
TxtIntro1 ==
    <<84, 104, 105, 115, 32, 99, 111, 110, 115, 111, 108, 101, 32, 117, 115, 101, 115, 32,
       27, 91, 49, 59, 51, 52, 109, 71, 111, 111, 103, 108, 101, 32, 65, 112, 112, 32,
       69, 110, 103, 105, 110, 101, 27, 91, 48, 109, 32, 102, 111, 114, 32, 97, 117, 116,
       104, 101, 110, 116, 105, 99, 97, 116, 105, 111, 110, 46, 32, 84, 111, 32, 108, 111,
       103, 105, 110, 32, 97, 115>>
TxtIntro2 ==
    <<97, 110, 32, 97, 100, 109, 105, 110, 105, 115, 116, 114, 97, 116, 111, 114, 44, 32,
       101, 110, 116, 101, 114, 32, 116, 104, 101, 32, 97, 100, 109, 105, 110, 32, 97, 99,
       99, 111, 117, 110, 116, 32, 99, 114, 101, 100, 101, 110, 116, 105, 97, 108, 115, 46,
       32, 73, 102, 32, 121, 111, 117, 32, 100, 111, 32, 110, 111, 116>>
TxtIntro3 ==
    <<121, 101, 116, 32, 104, 97, 118, 101, 32, 97, 110, 32, 97, 99, 99, 111, 117, 110,
       116, 32, 111, 110, 32, 107, 101, 120, 101, 99, 44, 32, 101, 110, 116, 101, 114, 32,
       121, 111, 117, 114, 32, 71, 111, 111, 103, 108, 101, 32, 99, 114, 101, 100, 101, 110,
       116, 105, 97, 108, 115, 32, 116, 111, 32, 98, 101, 103, 105, 110, 46>>
TxtUsername ==
    <<27, 91, 49, 59, 51, 50, 109, 85, 115, 101, 114, 110, 97, 109, 101, 58, 32, 27,
       91, 48, 109>>
TxtPassword ==
    <<27, 91, 49, 59, 51, 50, 109, 80, 97, 115, 115, 119, 111, 114, 100, 58, 32, 27,
       91, 48, 109>>
TxtInvalid ==
    <<27, 91, 49, 59, 51, 49, 109, 73, 110, 118, 97, 108, 105, 100, 32, 99, 114, 101,
       100, 101, 110, 116, 105, 97, 108, 115, 46, 32, 80, 108, 101, 97, 115, 101, 32, 116,
       114, 121, 32, 97, 103, 97, 105, 110, 46, 27, 91, 48, 109>>
TxtDomainHint ==
    <<27, 91, 49, 59, 51, 52, 109, 66, 101, 32, 115, 117, 114, 101, 32, 116, 111, 32,
       105, 110, 99, 108, 117, 100, 101, 32, 116, 104, 101, 32, 100, 111, 109, 97, 105, 110,
       32, 105, 110, 32, 121, 111, 117, 114, 32, 117, 115, 101, 114, 110, 97, 109, 101, 32,
       40, 101, 46, 103, 46, 32, 64, 103, 109, 97, 105, 108, 46, 99, 111, 109, 41, 46>>

\* send_command that sends on a disagreement but does not record the value
\* it sent as agreed
send_command_forgets(cmd, opt, ds, ws) ==
    IF cmd = DO \/ cmd = DONT
    THEN [do_set |-> ds, will_set |-> ws,
          out |-> IF ds[opt] # cmd THEN <<IAC, cmd, opt>> ELSE <<>>]
    ELSE IF cmd = WILL \/ cmd = WONT
    THEN [do_set |-> ds, will_set |-> ws,
          out |-> IF ws[opt] # cmd THEN <<IAC, cmd, opt>> ELSE <<>>]
    ELSE [do_set |-> ds, will_set |-> ws, out |-> <<IAC, cmd>>]

(***************************************************************************)
(* send_command(cmd, opt) on the agreed tables ds = telnet_do_set and      *)
(* ws = telnet_will_set: the tables after the call and the bytes written.  *)
(***************************************************************************)
send_command(cmd, opt, ds, ws) ==
    IF cmd = DO \/ cmd = DONT
    THEN IF (cmd = DO /\ ds[opt] # DO) \/ (cmd = DONT /\ ds[opt] # DONT)
         THEN [do_set |-> [ds EXCEPT ![opt] = cmd], will_set |-> ws,
               out |-> <<IAC, cmd, opt>>]
         ELSE [do_set |-> ds, will_set |-> ws, out |-> <<>>]
    ELSE IF cmd = WILL \/ cmd = WONT
    THEN IF (cmd = WILL /\ ws[opt] # WILL) \/ (cmd = WONT /\ ws[opt] # WONT)
         THEN [do_set |-> ds, will_set |-> [ws EXCEPT ![opt] = cmd],
               out |-> <<IAC, cmd, opt>>]
         ELSE [do_set |-> ds, will_set |-> ws, out |-> <<>>]
    ELSE [do_set |-> ds, will_set |-> ws, out |-> <<IAC, cmd>>]

\* the stances set_options declares: telnet_options and telnet_willack
DeclaredOptions ==
    [o \in Options |-> IF o = ECHO THEN WILL
                       ELSE IF o = SGA THEN WILL
                       ELSE IF o = NEW_ENVIRON THEN WONT
                       ELSE 0]

DeclaredWillack ==
    [o \in Options |-> IF o = ECHO THEN DONT
                       ELSE IF o = SGA THEN DO
                       ELSE IF o = NAWS THEN DO
                       ELSE IF o = TTYPE THEN DO
                       ELSE IF o = LINEMODE THEN DONT
                       ELSE IF o = NEW_ENVIRON THEN DO
                       ELSE 0]

\* one of the two loops of set_options, from option on: send_command for
\* every option the table tbl declares, in increasing order (the turns for
\* options with a zero entry do nothing and are skipped); st holds the
\* agreed tables and the output so far.  o is the least declared option
\* left, s the tables before its turn, r what send_command makes of it
RECURSIVE SendDeclared(_, _, _)
SendDeclared(tbl, option, st) ==
    LET left == {o \in Options : o >= option /\ tbl[o] # 0}
    IN  IF left = {} THEN st
        ELSE CHOOSE after \in
                 {SendDeclared(tbl, o + 1,
                      [do_set |-> r.do_set, will_set |-> r.will_set,
                       out |-> s.out \o r.out]) :
                    <<o, s, r>> \in
                        {<<x, y, send_command(tbl[x], x, y.do_set, y.will_set)>> :
                            x \in {z \in left : \A w \in left : z <= w},
                            y \in {st}}} : TRUE

\* set_options() on the four tables: the declared tables it sets and the
\* agreed tables and output its two loops leave
set_options(topt, tack, ds, ws) ==
    LET o2 == [o \in Options |-> IF DeclaredOptions[o] # 0 THEN DeclaredOptions[o] ELSE topt[o]]
        a2 == [o \in Options |-> IF DeclaredWillack[o] # 0 THEN DeclaredWillack[o] ELSE tack[o]]
        s1 == SendDeclared(o2, 0, [do_set |-> ds, will_set |-> ws, out |-> <<>>])
        s2 == SendDeclared(a2, 0, s1)
    IN  [options |-> o2, willack |-> a2, do_set |-> s2.do_set,
         will_set |-> s2.will_set, out |-> s2.out]

(***************************************************************************)
(* The bytes the peer may deliver, per read site and per specification.    *)
(* Each set holds bytes the code tells apart at that site and one of the   *)
(* others.                                                                 *)
(***************************************************************************)
\* first getc of the handshake loop: IAC, or a byte of data
NegDataIn == {IAC, TTYPE, NAWS}
\* second getc: the command after IAC (DO and DONT, which read an option as
\* WILL does, are inputs of the option specification)
NegCmdIn == {SE, NOP, WILL, SB, IAC}
\* third getc: the option of WILL/WONT/DO/DONT
NegOptIn == {TTYPE}
\* the sub-negotiation specification: data bytes that are a capability, the
\* zero that ends a string, and a letter; every case of the switch that
\* reads no option or the terminal-type option (0 stands for the default)
SubDataIn == {IAC, 0, TTYPE, NAWS, 120}
SubCmdIn == {SE, NOP, WILL, WONT, SB, IAC, 0}
SubOptIn == {TTYPE}
\* getc of readline in the session loop
SessionIn == {13, 97}
\* the option specification: no sub-negotiation data, and options declared in
\* both tables, in telnet_willack only, and in neither
OptDataIn == {IAC, 120}
OptCmdIn == {NOP, WILL, WONT, DO, DONT, IAC}
OptOptIn == {ECHO, TTYPE, NAWS, 5}
\* getc of readline in the editor specification
EditIn == {0, 8, 13, 97, 98, 127}

\* the peer address handle_connection is given
ipaddr == "peer"

VARIABLES
    pc,               \* where the process is: the getc it blocks in, a step between,
                      \* a signal handler ("handler"; "hung" once it waits for ever)
    eof,              \* input has reached the end of the stream
    closed,           \* the connection takes no more writes: the peer has closed it
    exit_code,        \* the status of _exit, -1 while the process runs
    alarm_armed,      \* an alarm(1) is pending
    out,              \* the bytes the last action wrote to output
    obuf,             \* the buffer of output: the bytes it holds, old ones included
    handlers,         \* the signal handlers entered and not left, the first outermost
    interrupted,      \* where the process was when the first of them was entered
    telnet_options, telnet_willack, telnet_do_set, telnet_will_set,
    neg_i,            \* negotiate_telnet's i while a command is being read
    sb, sb_len, sb_mode, done, term, terminal_width, do_echo,
    field,            \* the buffer readline was called with: "username" or "password"
    rl_i, rl_c,       \* readline's i and c
    username, password,
    logfile,          \* the tuples written to logfile, in order
    attempts,         \* turns of the session loop started
    received,         \* history: the peer has delivered a byte
    ended_by,         \* history: what ended the handshake loop
    fin,              \* history: the bytes the current readline call has consumed
    rl_out            \* history: the bytes the current readline call has written

tables == <<telnet_options, telnet_willack, telnet_do_set, telnet_will_set>>
neg_locals == <<neg_i, sb, sb_len, sb_mode, done, term, terminal_width, do_echo>>
rl_vars == <<field, rl_i, rl_c, username, password, fin, rl_out>>
signals == <<handlers, interrupted>>
vars == <<pc, eof, closed, exit_code, alarm_armed, out, obuf, signals, tables, neg_locals,
          rl_vars, logfile, attempts, received, ended_by>>

ZeroTable == [o \in Options |-> 0]
\* memset(sb, 0, 1024)
ZeroSb == [k \in 0..(SbSize - 1) |-> 0]
\* char term[1024] = {'a','n','s','i', 0}, as a string
AnsiTerm == <<97, 110, 115, 105>>
\* a line buffer before readline has written it (the model never reads it)
FreshLine == [k \in 0..(LineSize - 1) |-> 0]

(***************************************************************************)
(* The state when handle_connection calls negotiate_telnet: the globals    *)
(* zero, the locals of negotiate_telnet as lines 231-236 initialise them.  *)
(***************************************************************************)
Init ==
    /\ pc = "start"
    /\ eof = FALSE
    /\ closed = FALSE
    /\ exit_code = -1
    /\ alarm_armed = FALSE
    /\ out = <<>>
    /\ obuf = <<>>
    /\ handlers = <<>>
    /\ interrupted = "none"
    /\ telnet_options = ZeroTable
    /\ telnet_willack = ZeroTable
    /\ telnet_do_set = ZeroTable
    /\ telnet_will_set = ZeroTable
    /\ neg_i = 0
    /\ sb = ZeroSb
    /\ sb_len = 0
    /\ sb_mode = 0
    /\ done = 0
    /\ term = AnsiTerm
    /\ terminal_width = 80
    /\ do_echo = 0
    /\ field = "none"
    /\ rl_i = 0
    /\ rl_c = 0
    /\ username = FreshLine
    /\ password = FreshLine
    /\ logfile = <<>>
    /\ attempts = 0
    /\ received = FALSE
    /\ ended_by = "running"
    /\ fin = <<>>
    /\ rl_out = <<>>

\* what getc(input) may return: a byte of In while the stream is open, EOF
\* once it has ended (and from then on)
Getc(In) == IF eof THEN {EOF} ELSE In \cup {EOF}

\* alarm(seconds): whether an alarm is pending after the call
alarm(seconds) == seconds > 0

\* feof(stdin): stdin is not the connection and is never read
feof_stdin == FALSE

\* the while condition of negotiate_telnet, with d the value of done
NegLoop(d) == ~feof_stdin /\ d < 2

(***************************************************************************)
(* What a step of the process writes, as its writes to the peer in order:  *)
(* each write is one fflush(output), given as the pieces the statements    *)
(* before that fflush have put into the buffer of output.  A piece is      *)
(* what reaches the buffer at once: a string one call copies (a format     *)
(* without conversions, or a literal run or "%d" of a format with          *)
(* conversions), or the byte one putc or one "%c" stores.                  *)
(***************************************************************************)
\* a string copied into the buffer
Str(s) == [bytes |-> s, store |-> FALSE]

\* a byte stored into the buffer
Chr(b) == [bytes |-> <<b>>, store |-> TRUE]

\* bytes that reach the buffer one at a time: the putc calls of newline
\* (lines 49-51), the %c conversions of lines 171, 178, 182 and 287
Chars(bytes) == [k \in 1..Len(bytes) |-> Chr(bytes[k])]

\* the bytes of the pieces ps, one after the other
RECURSIVE Flat(_)
Flat(ps) == IF ps = <<>> THEN <<>> ELSE Head(ps).bytes \o Flat(Tail(ps))

\* all the bytes of the writes ws
RECURSIVE Bytes(_)
Bytes(ws) == IF ws = <<>> THEN <<>> ELSE Flat(Head(ws)) \o Bytes(Tail(ws))

\* the buffer buf after the bytes s were put at its start: fflush sends
\* the bytes and takes the position back to the start, the bytes stay
Stored(buf, s) == s \o SubSeq(buf, Len(s) + 1, Len(buf))

\* the buffer buf after the writes ws
RECURSIVE Image(_, _)
Image(buf, ws) ==
    IF ws = <<>> THEN buf ELSE Image(Stored(buf, Flat(Head(ws))), Tail(ws))

\* the bytes the first j of the writes ws have sent
Sent(ws, j) == Bytes(SubSeq(ws, 1, j))

\* abort() raises SIGABRT
SIGABRT == 6

\* a write to a connection the peer has closed raises SIGPIPE, which the
\* process neither handles nor ignores
SIGPIPE == 13

\* the status of a process that a signal has killed, as a shell gives it
KilledBy(sig) == 128 + sig

(***************************************************************************)
(* The peer closes the connection, which from then on takes no write: on   *)
(* a TCP connection from the reset that answers the first write after the  *)
(* close, on a local socket from the close itself.  What the peer has sent *)
(* before may still be read.  Inside an entered handler the close is an    *)
(* outcome of the handler.                                                 *)
(***************************************************************************)
ConnectionClosed ==
    /\ pc \notin {"exited", "handler", "hung"}
    /\ ~closed
    /\ closed' = TRUE
    /\ out' = <<>>
    /\ UNCHANGED <<pc, eof, exit_code, alarm_armed, obuf, signals, tables, neg_locals,
                   rl_vars, logfile, attempts, received, ended_by>>

\* the connection takes the writes ws of a step
Accepts(ws) ==
    /\ ws = <<>> \/ ~closed
    /\ closed' = closed

\* a write of the step's writes ws is refused and SIGPIPE kills the
\* process: the first write when the connection is closed already, a
\* later one when the peer closes it during the step
Broken(ws) ==
    /\ ws # <<>>
    /\ \/ /\ closed
          /\ closed' = closed
          /\ out' = <<>>
       \/ /\ ~closed
          /\ closed' = TRUE
          /\ \E j \in 1..(Len(ws) - 1) : out' = Sent(ws, j)
    /\ exit_code' = KilledBy(SIGPIPE)
    /\ pc' = "exited"

\* the writes of set_options, one per command: send_command flushes each
Commands(bytes) ==
    [k \in 1..(Len(bytes) \div 3) |-> Chars(SubSeq(bytes, 3 * k - 2, 3 * k))]

\* lines 271-275: the case of command ch, of which NOP alone writes
CommandWrites(ch) ==
    IF ch = NOP
    THEN << Chars(send_command(NOP, 0, telnet_do_set, telnet_will_set).out) >>
    ELSE <<>>

(***************************************************************************)
(* negotiate_telnet, lines 239-243: set_options() and alarm(1).  A command *)
(* of set_options that the connection refuses ends the process before the  *)
(* alarm is set.                                                           *)
(***************************************************************************)
NegotiateStart ==
    /\ pc = "start"
    /\ \E r \in {set_options(telnet_options, telnet_willack, telnet_do_set, telnet_will_set)} :
           \/ /\ Accepts(Commands(r.out))
              /\ telnet_options' = r.options
              /\ telnet_willack' = r.willack
              /\ telnet_do_set' = r.do_set
              /\ telnet_will_set' = r.will_set
              /\ out' = r.out
              /\ obuf' = Image(obuf, Commands(r.out))
              /\ alarm_armed' = alarm(1)
              /\ pc' = IF NegLoop(done) THEN "neg" ELSE "neg_ret"
              /\ UNCHANGED exit_code
           \/ /\ Broken(Commands(r.out))
              /\ UNCHANGED <<alarm_armed, obuf, tables>>
    /\ UNCHANGED <<eof, signals, neg_locals, rl_vars, logfile, attempts, received, ended_by>>

\* SbAppend with the limit off by one: it fills the last byte of sb as well
SbAppend_fills(sbuf, len, mode, ch) ==
    IF mode # 0 /\ len < SbSize
    THEN [sb |-> [sbuf EXCEPT ![len] = ch], sb_len |-> len + 1]
    ELSE [sb |-> sbuf, sb_len |-> len]

\* lines 316-327: a byte that is not IAC, in sub-negotiation mode
SbAppend(sbuf, len, mode, ch) ==
    IF mode # 0 /\ len < SbSize - 1
    THEN [sb |-> [sbuf EXCEPT ![len] = ch], sb_len |-> len + 1]
    ELSE [sb |-> sbuf, sb_len |-> len]

(***************************************************************************)
(* Lines 246-249 and 316-327: the first getc of a turn of the loop.        *)
(***************************************************************************)
NegotiateGetc(In) ==
    /\ pc = "neg"
    /\ \E b \in Getc(In) :
         LET ch == ToUChar(b)
             r == SbAppend(sb, sb_len, sb_mode, ch)
         IN  /\ eof' = (b = EOF)
             /\ received' = (received \/ b # EOF)
             /\ IF ch = IAC
                THEN /\ pc' = "neg_cmd"
                     /\ neg_i' = ch
                     /\ UNCHANGED <<sb, sb_len>>
                ELSE /\ pc' = IF NegLoop(done) THEN "neg" ELSE "neg_ret"
                     /\ neg_i' = 0
                     /\ sb' = r.sb
                     /\ sb_len' = r.sb_len
    /\ out' = <<>>
    /\ UNCHANGED <<closed, exit_code, alarm_armed, obuf, signals, tables, sb_mode, done,
                   term, terminal_width, do_echo, rl_vars, logfile, attempts, ended_by>>

\* case SE, lines 253-270: the outcomes for the buffer sbuf, as records of
\* term, terminal_width, done and whether the alarm is still pending
SubnegEnd(sbuf, t, w, d, armed) ==
    IF sbuf[0] = TTYPE
    THEN {[term |-> TermOf(sbuf), terminal_width |-> w, done |-> d + 1, alarm |-> alarm(0)]}
    ELSE IF sbuf[0] = NAWS
    THEN {[term |-> t, terminal_width |-> x, done |-> d + 1, alarm |-> alarm(0)] :
              x \in CharToInt(sbuf[2])}
    ELSE {[term |-> t, terminal_width |-> w, done |-> d, alarm |-> armed]}

(***************************************************************************)
(* Lines 251-315: the getc of the command after IAC, and its case.         *)
(***************************************************************************)
NegotiateCommand(In) ==
    /\ pc = "neg_cmd"
    /\ \E b \in Getc(In) :
         LET ch == ToUChar(b)
         IN  /\ eof' = (b = EOF)
             /\ received' = (received \/ b # EOF)
             /\ \/ /\ Accepts(CommandWrites(ch))
                   /\ obuf' = Image(obuf, CommandWrites(ch))
                   /\ UNCHANGED exit_code
                   /\ IF ch \in {WILL, WONT, DO, DONT}
                      THEN /\ pc' = "neg_opt"
                           /\ neg_i' = ch
                           /\ out' = <<>>
                           /\ UNCHANGED <<alarm_armed, sb, sb_len, sb_mode, done, term,
                                          terminal_width, ended_by>>
                      ELSE /\ neg_i' = 0
                           /\ \E r \in (IF ch = SE
                                        THEN SubnegEnd(sb, term, terminal_width, done,
                                                       alarm_armed)
                                        ELSE {[term |-> term,
                                               terminal_width |-> terminal_width,
                                               done |-> IF ch = IAC THEN 2 ELSE done,
                                               alarm |-> alarm_armed]}) :
                                /\ term' = r.term
                                /\ terminal_width' = r.terminal_width
                                /\ done' = r.done
                                /\ alarm_armed' = r.alarm
                                /\ pc' = IF NegLoop(r.done) THEN "neg" ELSE "neg_ret"
                                /\ ended_by' = IF NegLoop(r.done) THEN ended_by
                                               ELSE IF ch = SE THEN "resolved"
                                               ELSE IF b = EOF THEN "eof"
                                               ELSE "doubled_iac"
                           /\ sb_mode' = IF ch = SE THEN 0 ELSE IF ch = SB THEN 1 ELSE sb_mode
                           /\ sb_len' = IF ch = SB THEN 0 ELSE sb_len
                           /\ sb' = IF ch = SB THEN ZeroSb ELSE sb
                           /\ out' = IF ch = NOP
                                     THEN send_command(NOP, 0, telnet_do_set,
                                                       telnet_will_set).out
                                     ELSE <<>>
                \/ /\ Broken(CommandWrites(ch))
                   /\ UNCHANGED <<alarm_armed, obuf, neg_i, sb, sb_len, sb_mode, done,
                                  term, terminal_width, ended_by>>
    /\ UNCHANGED <<signals, tables, do_echo, rl_vars, logfile, attempts>>

\* lines 280-282 and 295-297: the stance of table tbl for opt, the refusal
\* dflt the first time an undeclared option is met
DefaultStance(tbl, opt, dflt) ==
    IF tbl[opt] = 0 THEN [tbl EXCEPT ![opt] = dflt] ELSE tbl

\* line 287: the terminal-type request
TtypeRequest == <<IAC, SB, TTYPE, SEND, IAC, SE>>

\* negotiate_option with the test of line 285 on the option alone: the
\* terminal type is requested for a WONT TTYPE as well
negotiate_option_asks_always(i, opt, t) ==
    IF i = WILL \/ i = WONT
    THEN LET ack == DefaultStance(t.willack, opt, WONT)
             r == send_command(ack[opt], opt, t.do_set, t.will_set)
         IN  [options |-> t.options, willack |-> ack, do_set |-> r.do_set,
              will_set |-> r.will_set, do_echo |-> t.do_echo, reply |-> r.out,
              out |-> r.out \o (IF opt = TTYPE THEN TtypeRequest ELSE <<>>)]
    ELSE LET opts == DefaultStance(t.options, opt, DONT)
             r == send_command(opts[opt], opt, t.do_set, t.will_set)
         IN  [options |-> opts, willack |-> t.willack, do_set |-> r.do_set,
              will_set |-> r.will_set,
              do_echo |-> IF opt = ECHO THEN (IF i = DO THEN 1 ELSE 0) ELSE t.do_echo,
              reply |-> r.out, out |-> r.out]

(***************************************************************************)
(* Lines 276-302, after opt = getc(input): the case WILL/WONT or DO/DONT   *)
(* for verb i and option opt on the tables t (a record of the four tables  *)
(* and do_echo): the tables after it, the negotiation reply send_command   *)
(* wrote and everything written.                                           *)
(***************************************************************************)
negotiate_option(i, opt, t) ==
    IF i = WILL \/ i = WONT
    THEN LET ack == DefaultStance(t.willack, opt, WONT)
             r == send_command(ack[opt], opt, t.do_set, t.will_set)
         IN  [options |-> t.options, willack |-> ack, do_set |-> r.do_set,
              will_set |-> r.will_set, do_echo |-> t.do_echo, reply |-> r.out,
              out |-> r.out \o (IF i = WILL /\ opt = TTYPE THEN TtypeRequest ELSE <<>>)]
    ELSE LET opts == DefaultStance(t.options, opt, DONT)
             r == send_command(opts[opt], opt, t.do_set, t.will_set)
         IN  [options |-> opts, willack |-> t.willack, do_set |-> r.do_set,
              will_set |-> r.will_set,
              do_echo |-> IF opt = ECHO THEN (IF i = DO THEN 1 ELSE 0) ELSE t.do_echo,
              reply |-> r.out, out |-> r.out]

\* the option tables and do_echo of the current state
Registry ==
    [options |-> telnet_options, willack |-> telnet_willack,
     do_set |-> telnet_do_set, will_set |-> telnet_will_set, do_echo |-> do_echo]

\* lines 283-288 and 298-301: the reply of send_command, flushed at line
\* 183, then for WILL TTYPE the request, flushed at line 288
OptionWrites(i, opt, t) ==
    LET r == negotiate_option(i, opt, t)
    IN  (IF r.reply # <<>> THEN << Chars(r.reply) >> ELSE <<>>)
        \o (IF r.out # r.reply THEN << Chars(TtypeRequest) >> ELSE <<>>)

(***************************************************************************)
(* Lines 279 and 294: the getc of the option of a WILL/WONT/DO/DONT, and   *)
(* the case that handles it.                                               *)
(***************************************************************************)
NegotiateOption(In) ==
    /\ pc = "neg_opt"
    /\ \E b \in Getc(In) :
         LET r == negotiate_option(neg_i, ToUChar(b), Registry)
         IN  /\ eof' = (b = EOF)
             /\ received' = (received \/ b # EOF)
             /\ \/ /\ Accepts(OptionWrites(neg_i, ToUChar(b), Registry))
                   /\ telnet_options' = r.options
                   /\ telnet_willack' = r.willack
                   /\ telnet_do_set' = r.do_set
                   /\ telnet_will_set' = r.will_set
                   /\ do_echo' = r.do_echo
                   /\ out' = r.out
                   /\ obuf' = Image(obuf, OptionWrites(neg_i, ToUChar(b), Registry))
                   /\ neg_i' = 0
                   /\ pc' = IF NegLoop(done) THEN "neg" ELSE "neg_ret"
                   /\ UNCHANGED exit_code
                \/ /\ Broken(OptionWrites(neg_i, ToUChar(b), Registry))
                   /\ UNCHANGED <<obuf, tables, do_echo, neg_i>>
    /\ UNCHANGED <<alarm_armed, signals, sb, sb_len, sb_mode, done, term,
                   terminal_width, rl_vars, logfile, attempts, ended_by>>

\* readline_char without the test of line 116: a backspace at cursor 0 is
\* handled like any other backspace
readline_char_underflow(c, i, buf, pw) ==
    IF c = 10 \/ c = 13
    THEN [i |-> i, buffer |-> buf, out |-> newline(1), ctl |-> "break"]
    ELSE IF c = 8 \/ c = 127
    THEN IF pw # 0
         THEN [i |-> -1 + 1, buffer |-> buf,
               out |-> <<27, 91>> \o Decimal(i) \o <<68, 27, 91, 75>>, ctl |-> "next"]
         ELSE [i |-> (i - 2) + 1, buffer |-> buf, out |-> <<8, 32, 8>>, ctl |-> "next"]
    ELSE IF c = 255
    THEN [i |-> i, buffer |-> buf, out |-> <<>>, ctl |-> "exit"]
    ELSE [i |-> i + 1, buffer |-> [buf EXCEPT ![i] = c],
          out |-> <<IF pw # 0 THEN 42 ELSE c>>, ctl |-> "next"]

\* readline_char with the echo of line 134 unmasked: the character itself
\* is written whatever the password flag says
readline_char_echoes(c, i, buf, pw) ==
    IF c = 10 \/ c = 13
    THEN [i |-> i, buffer |-> buf, out |-> newline(1), ctl |-> "break"]
    ELSE IF c = 8 \/ c = 127
    THEN IF i = 0
         THEN [i |-> -1 + 1, buffer |-> buf, out |-> <<>>, ctl |-> "next"]
         ELSE IF pw # 0
         THEN [i |-> -1 + 1, buffer |-> buf,
               out |-> <<27, 91>> \o Decimal(i) \o <<68, 27, 91, 75>>, ctl |-> "next"]
         ELSE [i |-> (i - 2) + 1, buffer |-> buf, out |-> <<8, 32, 8>>, ctl |-> "next"]
    ELSE IF c = 255
    THEN [i |-> i, buffer |-> buf, out |-> <<>>, ctl |-> "exit"]
    ELSE [i |-> i + 1, buffer |-> [buf EXCEPT ![i] = c], out |-> <<c>>, ctl |-> "next"]

(***************************************************************************)
(* readline, lines 112-136: one turn of the for loop for the character c   *)
(* at cursor i of buffer buf: the cursor after the turn (after ++i, or as  *)
(* the break leaves it), the buffer, the bytes written and how the turn    *)
(* ends: "break", "next" (the next turn's test follows) or "exit".         *)
(***************************************************************************)
readline_char(c, i, buf, pw) ==
    IF c = 10 \/ c = 13
    THEN [i |-> i, buffer |-> buf, out |-> newline(1), ctl |-> "break"]
    ELSE IF c = 8 \/ c = 127
    THEN IF i = 0
         THEN [i |-> -1 + 1, buffer |-> buf, out |-> <<>>, ctl |-> "next"]
         ELSE IF pw # 0
         THEN [i |-> -1 + 1, buffer |-> buf,
               out |-> <<27, 91>> \o Decimal(i) \o <<68, 27, 91, 75>>, ctl |-> "next"]
         ELSE [i |-> (i - 2) + 1, buffer |-> buf, out |-> <<8, 32, 8>>, ctl |-> "next"]
    ELSE IF c = 255
    THEN [i |-> i, buffer |-> buf, out |-> <<>>, ctl |-> "exit"]
    ELSE [i |-> i + 1, buffer |-> [buf EXCEPT ![i] = c],
          out |-> <<IF pw # 0 THEN 42 ELSE c>>, ctl |-> "next"]

\* the for condition of readline, i < size - 1
RlLoop(i, size) == i < size - 1

\* the buffer and mask of the current readline call
Buffer == IF field = "password" THEN password ELSE username
Mask == IF field = "password" THEN 1 ELSE 0

\* the string readline returned in a line buffer
Line(buf) == CStr(buf, 0, LineSize)

(***************************************************************************)
(* A readline call as a record: pc ("rl": blocked in the getc of line 109, *)
(* "rl_nul": in the getc of line 111, "rl_ret": returned, "exited"), the   *)
(* locals i and c, the buffer and everything written since the entry.      *)
(***************************************************************************)
\* lines 103-108: the entry of readline(buffer, size, password) up to the
\* first getc; ateof is feof(input)
readline_enter(buf, size, ateof) ==
    IF RlLoop(0, size)
    THEN [pc |-> IF ateof THEN "exited" ELSE "rl", i |-> 0, c |-> 0,
          buffer |-> buf, out |-> TxtShowCursor]
    ELSE [pc |-> "rl_ret", i |-> 0, c |-> 0, buffer |-> [buf EXCEPT ![0] = 0],
          out |-> TxtShowCursor \o TxtHideCursor]

\* lines 109-141: what a call blocked in a getc does with the value b the
\* getc returns, up to its next getc, its return or its _exit
readline_getc(st, b, size, pw) ==
    LET c == ToUChar(b)
    IN  IF st.pc = "rl" /\ c = 0
        THEN [st EXCEPT !.pc = "rl_nul", !.c = 0]
        ELSE LET r == readline_char(c, st.i, st.buffer, pw)
                 leave == r.ctl = "break" \/ ~RlLoop(r.i, size)
             IN  IF r.ctl = "exit"
                 THEN [pc |-> "exited", i |-> r.i, c |-> c, buffer |-> r.buffer,
                       out |-> st.out \o r.out]
                 ELSE IF leave
                 THEN [pc |-> "rl_ret", i |-> r.i, c |-> c,
                       buffer |-> [r.buffer EXCEPT ![r.i] = 0],
                       out |-> st.out \o r.out \o TxtHideCursor]
                 ELSE [pc |-> IF b = EOF THEN "exited" ELSE "rl", i |-> r.i, c |-> c,
                       buffer |-> r.buffer, out |-> st.out \o r.out]

\* the current readline call
Call == [pc |-> pc, i |-> rl_i, c |-> rl_c, buffer |-> Buffer, out |-> rl_out]

\* bytes s written after the first n of them
Written(s, n) == SubSeq(s, n + 1, Len(s))

\* the call st becomes the state of the process, for field f
SetCall(st, f) ==
    /\ pc' = st.pc
    /\ rl_i' = st.i
    /\ rl_c' = st.c
    /\ username' = IF f = "username" THEN st.buffer ELSE username
    /\ password' = IF f = "password" THEN st.buffer ELSE password
    /\ rl_out' = st.out
    /\ exit_code' = IF st.pc = "exited" THEN EXIT_SUCCESS ELSE exit_code

\* lines 113, 121, 126 and 134: the pieces one turn of readline's loop
\* puts into the buffer for character c at cursor i, bytes being what
\* readline_char writes
EchoStrings(c, i, pw, bytes) ==
    IF c = 10 \/ c = 13 THEN Chars(bytes)
    ELSE IF bytes = <<>> THEN <<>>
    ELSE IF (c = 8 \/ c = 127) /\ pw # 0
    THEN <<Str(<<27, 91>>), Str(Decimal(i)), Str(<<68, 27, 91, 75>>)>>
    ELSE IF c = 8 \/ c = 127 THEN <<Str(bytes)>>
    ELSE Chars(bytes)

\* lines 112-141: the writes of the call st for the value b of its getc:
\* the newline of a terminator goes out with the hidden cursor, an echo is
\* flushed on its own, and so is the hidden cursor after the echo of the
\* character that fills the buffer
EditWrites(st, b, size, pw) ==
    LET c == ToUChar(b)
        r == readline_char(c, st.i, st.buffer, pw)
        echo == EchoStrings(c, st.i, pw, r.out)
    IN  IF (st.pc = "rl" /\ c = 0) \/ r.ctl = "exit" THEN <<>>
        ELSE IF r.ctl = "break" THEN << echo \o <<Str(TxtHideCursor)>> >>
        ELSE (IF echo = <<>> THEN <<>> ELSE <<echo>>)
             \o (IF RlLoop(r.i, size) THEN <<>> ELSE << <<Str(TxtHideCursor)>> >>)

\* lines 415 and 103-104, 417 and 103-104: a prompt and readline's cursor;
\* lines 140-141: the hidden cursor of a readline that reads nothing
PromptWrites(prompt) ==
    << <<Str(prompt), Str(TxtShowCursor)>> >>
    \o (IF RlLoop(0, LineSize) THEN <<>> ELSE << <<Str(TxtHideCursor)>> >>)

\* a prompt, then the entry of readline for field f; the prompt goes out
\* with the cursor of line 103, before the test of line 107
ReadlineEnter(f, prompt) ==
    LET st == readline_enter(IF f = "password" THEN password ELSE username,
                             LineSize, eof)
    IN  \/ /\ Accepts(PromptWrites(prompt))
           /\ field' = f
           /\ fin' = <<>>
           /\ out' = prompt \o st.out
           /\ obuf' = Image(obuf, PromptWrites(prompt))
           /\ SetCall(st, f)
        \/ /\ Broken(PromptWrites(prompt))
           /\ UNCHANGED <<obuf, rl_vars>>

(***************************************************************************)
(* A getc of readline returns: the one of line 109 or, after a zero, the   *)
(* one of line 111.                                                        *)
(***************************************************************************)
ReadlineGetc(In) ==
    /\ pc \in {"rl", "rl_nul"}
    /\ Len(fin) < MaxFieldIn
    /\ \E b \in Getc(In) :
         LET st == readline_getc(Call, b, LineSize, Mask)
         IN  /\ eof' = (b = EOF)
             /\ received' = (received \/ b # EOF)
             /\ fin' = Append(fin, b)
             /\ \/ /\ Accepts(EditWrites(Call, b, LineSize, Mask))
                   /\ out' = Written(st.out, Len(rl_out))
                   /\ obuf' = Image(obuf, EditWrites(Call, b, LineSize, Mask))
                   /\ SetCall(st, field)
                \/ /\ Broken(EditWrites(Call, b, LineSize, Mask))
                   /\ UNCHANGED <<obuf, rl_i, rl_c, username, password, rl_out>>
    /\ UNCHANGED <<alarm_armed, signals, tables, neg_locals, field, logfile, attempts, ended_by>>

\* lines 397-412: the three titles, the clear, the heading and the text
WelcomeWrites ==
    << <<Str(SubSeq(TxtTitle, 1, 24)), Str(SubSeq(TxtTitle, 25, 49)),
         Str(SubSeq(TxtTitle, 50, 74)), Str(TxtClear), Str(TxtHeading)>>
       \o Chars(newline(3))
       \o <<Str(TxtIntro1)>> \o Chars(newline(1))
       \o <<Str(TxtIntro2)>> \o Chars(newline(1))
       \o <<Str(TxtIntro3)>> \o Chars(newline(4)) >>

\* lines 419-420
LogWrites == << Chars(newline(2)) >>

\* lines 425-427
RejectWrites == << Chars(newline(1)) \o <<Str(TxtInvalid)>> >>

(***************************************************************************)
(* handle_connection, lines 394-412: negotiate_telnet has returned (its    *)
(* locals are gone), the title and the welcome text are written; SIGPIPE   *)
(* ends the process at the fflush if the peer has closed the connection.   *)
(***************************************************************************)
Welcome ==
    /\ pc = "neg_ret"
    /\ \/ /\ Accepts(WelcomeWrites)
          /\ pc' = "loop"
          /\ out' = Bytes(WelcomeWrites)
          /\ obuf' = Image(obuf, WelcomeWrites)
          /\ neg_i' = 0
          /\ sb' = ZeroSb
          /\ sb_len' = 0
          /\ sb_mode' = 0
          /\ done' = 0
          /\ term' = AnsiTerm
          /\ terminal_width' = 80
          /\ do_echo' = 0
          /\ UNCHANGED exit_code
       \/ /\ Broken(WelcomeWrites)
          /\ UNCHANGED <<obuf, neg_locals>>
    /\ UNCHANGED <<eof, alarm_armed, signals, tables, rl_vars, logfile, attempts,
                   received, ended_by>>

\* lines 415-416: the username prompt and readline(username, ..., 0)
PromptUsername ==
    /\ pc = "loop"
    /\ attempts < MaxAttempts
    /\ attempts' = attempts + 1
    /\ ReadlineEnter("username", TxtUsername)
    /\ UNCHANGED <<eof, alarm_armed, signals, tables, neg_locals, logfile, received, ended_by>>

\* lines 417-418: the password prompt and readline(password, ..., 1)
PromptPassword ==
    /\ pc = "rl_ret"
    /\ field = "username"
    /\ ReadlineEnter("password", TxtPassword)
    /\ UNCHANGED <<eof, alarm_armed, signals, tables, neg_locals, logfile, attempts,
                   received, ended_by>>

\* line 421: the tuple fprintf(logfile, "%s - %s:%s\n", ...) writes
LogTuple(addr, user, pass) == <<addr, Line(user), Line(pass)>>

\* lines 419-424: the two newlines are flushed, then the log is written,
\* up to sleep(1)
LogAttempt ==
    /\ pc = "rl_ret"
    /\ field = "password"
    /\ \/ /\ Accepts(LogWrites)
          /\ out' = Bytes(LogWrites)
          /\ obuf' = Image(obuf, LogWrites)
          /\ logfile' = Append(logfile, LogTuple(ipaddr, username, password))
          /\ pc' = "logged"
          /\ UNCHANGED exit_code
       \/ /\ Broken(LogWrites)
          /\ UNCHANGED <<obuf, logfile>>
    /\ UNCHANGED <<eof, alarm_armed, signals, tables, neg_locals, rl_vars, attempts,
                   received, ended_by>>

\* strchr(username, '@') finds nothing
NoAt(user) == \A k \in 1..Len(Line(user)) : Line(user)[k] # 64

\* lines 429-437: the clear, the heading and, for a username without '@',
\* the hint
ClearWrites(user) ==
    << <<Str(TxtClear), Str(TxtHeading)>> \o Chars(newline(2))
       \o (IF NoAt(user) THEN <<Str(TxtDomainHint)>> \o Chars(newline(2)) ELSE <<>>) >>

\* RejectAttempt leaving the while (1) of line 413: the connection is
\* handled again from its start
RejectAttempt_restarts ==
    /\ pc = "logged"
    /\ \/ /\ Accepts(RejectWrites)
          /\ out' = Bytes(RejectWrites)
          /\ obuf' = Image(obuf, RejectWrites)
          /\ pc' = "start"
          /\ UNCHANGED exit_code
       \/ /\ Broken(RejectWrites)
          /\ UNCHANGED obuf
    /\ UNCHANGED <<eof, alarm_armed, signals, tables, neg_locals, rl_vars, logfile,
                   attempts, received, ended_by>>

\* lines 425-428: sleep(1) is over, the message of invalid credentials is
\* written and flushed, up to sleep(2); SIGPIPE ends the process if the
\* peer has closed the connection
RejectAttempt ==
    /\ pc = "logged"
    /\ \/ /\ Accepts(RejectWrites)
          /\ out' = Bytes(RejectWrites)
          /\ obuf' = Image(obuf, RejectWrites)
          /\ pc' = "rejected"
          /\ UNCHANGED exit_code
       \/ /\ Broken(RejectWrites)
          /\ UNCHANGED obuf
    /\ UNCHANGED <<eof, alarm_armed, signals, tables, neg_locals, rl_vars, logfile,
                   attempts, received, ended_by>>

\* lines 429-437: sleep(2) is over, the screen is cleared and headed again,
\* back to the top of the loop; SIGPIPE ends the process if the peer has
\* closed the connection
ClearScreen ==
    /\ pc = "rejected"
    /\ \/ /\ Accepts(ClearWrites(username))
          /\ out' = Bytes(ClearWrites(username))
          /\ obuf' = Image(obuf, ClearWrites(username))
          /\ pc' = "loop"
          /\ UNCHANGED exit_code
       \/ /\ Broken(ClearWrites(username))
          /\ UNCHANGED obuf
    /\ UNCHANGED <<eof, alarm_armed, signals, tables, neg_locals, rl_vars, logfile,
                   attempts, received, ended_by>>

(***************************************************************************)
(* Signals.  handle_connection installs both handlers with signal() (lines *)
(* 390 and 392): while a handler runs its own signal is blocked and the    *)
(* other is not, so a handler may be entered inside the other.  A handler  *)
(* never returns: it ends the process, or it waits for ever for a lock of  *)
(* stdio that the code it has interrupted holds (stdio is not              *)
(* async-signal-safe).                                                     *)
(*                                                                         *)
(* The signal finds the process waiting in a getc or a sleep, or inside a  *)
(* step: the one that comes next without waiting for input, or the one     *)
(* that handles the byte a getc has just returned.  InStep is the set of   *)
(* these steps, each with its writes and whether it calls stdio on output  *)
(* at all; the signal comes between two instructions of the step.  While   *)
(* a handler is entered the process's variables stay as they were before   *)
(* the step, and interrupted is where it was: the process reads them no    *)
(* more.                                                                   *)
(***************************************************************************)
\* the process waits: in a getc of input or in a sleep
Waiting == [ws |-> <<>>, stdio |-> FALSE, eof |-> eof]

\* a step that reads nothing, with the writes ws
Writing(ws) == [ws |-> ws, stdio |-> TRUE, eof |-> eof]

\* the readline call a handler has interrupted
InterruptedCall == [Call EXCEPT !.pc = interrupted]

\* the steps the process may be inside, each with its writes, whether it
\* calls stdio on output and whether its getc has met the end of the
\* stream; CmdIn, OptIn and LineIn are the bytes the peer may have
\* delivered to the getc of lines 251, 279/294 and 109/111
InStep(CmdIn, OptIn, LineIn) ==
    IF interrupted = "start"
    THEN {Writing(Commands(set_options(telnet_options, telnet_willack, telnet_do_set,
                                       telnet_will_set).out))}
    ELSE IF interrupted = "neg_ret" THEN {Writing(WelcomeWrites)}
    ELSE IF interrupted = "loop" THEN {Writing(PromptWrites(TxtUsername))}
    ELSE IF interrupted = "rl_ret" /\ field = "username" THEN {Writing(PromptWrites(TxtPassword))}
    ELSE IF interrupted = "rl_ret" /\ field = "password" THEN {Writing(LogWrites)}
    ELSE IF interrupted = "logged" THEN {Writing(RejectWrites)}
    ELSE IF interrupted = "rejected" THEN {Writing(ClearWrites(username))}
    ELSE IF interrupted = "neg_cmd"
    THEN {Waiting} \cup {[ws |-> CommandWrites(ToUChar(b)), stdio |-> ToUChar(b) = NOP,
                          eof |-> b = EOF] : b \in Getc(CmdIn)}
    ELSE IF interrupted = "neg_opt"
    THEN {Waiting} \cup {[ws |-> OptionWrites(neg_i, ToUChar(b), Registry), stdio |-> TRUE,
                          eof |-> b = EOF] : b \in Getc(OptIn)}
    ELSE IF interrupted \in {"rl", "rl_nul"}
    THEN {Waiting} \cup {[ws |-> EditWrites(InterruptedCall, b, LineSize, Mask),
                          stdio |-> EditWrites(InterruptedCall, b, LineSize, Mask) # <<>>,
                          eof |-> b = EOF] : b \in Getc(LineIn)}
    ELSE {Waiting}

\* the bytes the peer has from the writes ws when a handler is entered:
\* the writes done; what the buffer holds is not sent
Unflushed(ws) == {Sent(ws, j) : j \in 0..Len(ws)}

\* the same when the connection may have been closed before the step: its
\* first write would have ended the process, so none is done
Done(ws) == IF closed THEN {<<>>} ELSE Unflushed(ws)

\* a byte of the buffer that no write has reached: malloc does not clear
\* the buffer, the byte is zero in a heap nothing was freed into and any
\* other byte otherwise (120 stands for those)
Uninitialised == {0, 120}

\* the byte at offset o of the buffer buf
Stale(buf, o) == IF o < Len(buf) THEN {buf[o + 1]} ELSE Uninitialised

\* what an fflush sends when it comes inside the write w, the buffer having
\* been buf before w: the pieces that have reached the buffer; inside the
\* store of a byte, whose position is counted before the byte is there,
\* the byte the buffer held at that offset as well
Held(buf, w) ==
    {Flat(SubSeq(w, 1, k)) : k \in 0..Len(w)}
    \cup UNION {{Flat(SubSeq(w, 1, k - 1)) \o <<b>> :
                    b \in Stale(buf, Len(Flat(SubSeq(w, 1, k - 1))))} :
                  k \in {n \in 1..Len(w) : w[n].store}}

\* the bytes the peer has from the writes ws once a handler entered inside
\* them has called fflush(output): the writes done and what the buffer
\* holds of the next; entered inside an fflush whose write is done and
\* whose buffer is not yet emptied, the handler sends that write a second
\* time
Flushed(buf, ws) ==
    {Sent(ws, Len(ws))}
    \cup UNION {{Sent(ws, j - 1) \o h : h \in Held(Image(buf, SubSeq(ws, 1, j - 1)), ws[j])} :
                  j \in 1..Len(ws)}
    \cup {Sent(ws, j) \o Flat(ws[j]) : j \in 1..Len(ws)}

\* lines 76-77: the banner
TxtBanner == TxtReset \o TxtRealClient \o newline(1)

(***************************************************************************)
(* A signal is delivered and its handler entered: SIGALRM by the pending   *)
(* alarm or by another process, SIGINT by another process.  A signal is    *)
(* blocked while its own handler is entered.  Line 73, alarm(0), is the    *)
(* first thing SIGALRM_handler does.                                       *)
(***************************************************************************)
Deliver(sig) ==
    /\ pc # "exited"
    /\ \A k \in 1..Len(handlers) : handlers[k] # sig
    /\ handlers' = Append(handlers, sig)
    /\ interrupted' = IF handlers = <<>> THEN pc ELSE interrupted
    /\ pc' = IF pc = "hung" THEN "hung" ELSE "handler"
    /\ alarm_armed' = IF sig = "SIGALRM" THEN alarm(0) ELSE alarm_armed
    /\ out' = <<>>
    /\ UNCHANGED <<eof, closed, exit_code, obuf, tables, neg_locals, rl_vars, logfile,
                   attempts, received, ended_by>>

\* the handler that runs: the last one entered, unless it waits for ever
Running(sig) ==
    /\ pc = "handler"
    /\ handlers[Len(handlers)] = sig

\* the handler that runs was entered inside the other handler
Nested == Len(handlers) = 2

\* the process ends with status, the peer having one of the outputs outs
Ends(status, outs) ==
    /\ \E o \in outs : out' = o
    /\ exit_code' = status
    /\ pc' = "exited"

\* the handler waits for ever in fprintf, for the lock of stderr or of
\* output, the peer having one of the outputs outs: the process neither
\* runs on nor exits
Hangs(outs) ==
    /\ \E o \in outs : out' = o
    /\ exit_code' = exit_code
    /\ pc' = "hung"

\* the handler's fprintf(output, ...) is the first call to write to output
\* and allocates its buffer, inside the malloc that the interrupted call
\* makes for the same buffer: malloc finds its heap inconsistent and
\* aborts, nothing was sent
Aborts(step) ==
    /\ obuf = <<>>
    /\ step.ws # <<>>
    /\ Ends(KilledBy(SIGABRT), {<<>>})

(***************************************************************************)
(* SIGALRM_handler, lines 74-80.  It flushes what the buffer holds and     *)
(* the banner and ends the process; entered inside SIGINT_handler, it      *)
(* flushes the string of line 63 as well if that has reached the buffer.   *)
(* If the peer has closed the connection, or closes it before the fflush   *)
(* of line 78, SIGPIPE ends the process there.  Or the handler waits for   *)
(* ever: entered while a stdio call of the step, or of SIGINT_handler,     *)
(* holds a lock.                                                           *)
(***************************************************************************)
SIGALRM_handler(CmdIn, OptIn, LineIn) ==
    /\ Running("SIGALRM")
    /\ \E step \in InStep(CmdIn, OptIn, LineIn) :
         /\ eof' = step.eof
         /\ \/ /\ ~closed
               /\ closed' = closed
               /\ Ends(EXIT_FAILURE, {f \o TxtBanner : f \in Flushed(obuf, step.ws)})
            \/ /\ ~closed /\ Nested
               /\ closed' = closed
               /\ Ends(EXIT_FAILURE,
                       {f \o TxtReset \o TxtBanner : f \in Flushed(obuf, step.ws)})
            \/ /\ closed' = TRUE
               /\ Ends(KilledBy(SIGPIPE), Done(step.ws))
            \/ /\ step.stdio \/ Nested
               /\ closed' = closed
               /\ Hangs(Done(step.ws))
            \/ /\ closed' = closed
               /\ Aborts(step)
    /\ UNCHANGED <<alarm_armed, obuf, signals, tables, neg_locals, rl_vars, logfile,
                   attempts, received, ended_by>>

(***************************************************************************)
(* SIGINT_handler, lines 60-65.  What it prints to output stays in the     *)
(* buffer, _exit does not flush: the peer has what was sent before, which  *)
(* includes the banner if SIGINT_handler is entered inside SIGALRM_handler *)
(* after the fflush of line 78.  Or it waits for ever: entered while a     *)
(* stdio call of the step, or of SIGALRM_handler, holds a lock.  It writes  *)
(* nothing to the connection, closed or not.                               *)
(***************************************************************************)
SIGINT_handler(CmdIn, OptIn, LineIn) ==
    /\ Running("SIGINT")
    /\ \E step \in InStep(CmdIn, OptIn, LineIn) :
         /\ eof' = step.eof
         /\ \/ Ends(EXIT_SUCCESS, Done(step.ws))
            \/ /\ ~closed /\ Nested
               /\ Ends(EXIT_SUCCESS, {f \o TxtBanner : f \in Flushed(obuf, step.ws)})
            \/ /\ step.stdio \/ Nested
               /\ Hangs(Done(step.ws))
            \/ /\ ~closed /\ Nested
               /\ Hangs({f \o TxtBanner : f \in Flushed(obuf, step.ws)})
            \/ Aborts(step)
    /\ UNCHANGED <<closed, alarm_armed, obuf, signals, tables, neg_locals, rl_vars, logfile,
                   attempts, received, ended_by>>

Next ==
    \/ ConnectionClosed
    \/ NegotiateStart
    \/ NegotiateGetc(NegDataIn)
    \/ NegotiateCommand(NegCmdIn)
    \/ NegotiateOption(NegOptIn)
    \/ Deliver("SIGALRM")
    \/ Deliver("SIGINT")
    \/ SIGALRM_handler(NegCmdIn, NegOptIn, SessionIn)
    \/ SIGINT_handler(NegCmdIn, NegOptIn, SessionIn)
    \/ Welcome
    \/ PromptUsername
    \/ ReadlineGetc(SessionIn)
    \/ PromptPassword
    \/ LogAttempt
    \/ RejectAttempt
    \/ ClearScreen

Spec == Init /\ [][Next]_vars

\* negotiate_telnet alone, up to its return, with the option
\* specification's inputs
NextOptions ==
    \/ ConnectionClosed
    \/ NegotiateStart
    \/ NegotiateGetc(OptDataIn)
    \/ NegotiateCommand(OptCmdIn)
    \/ NegotiateOption(OptOptIn)
    \/ Deliver("SIGALRM")
    \/ Deliver("SIGINT")
    \/ SIGALRM_handler(OptCmdIn, OptOptIn, SessionIn)
    \/ SIGINT_handler(OptCmdIn, OptOptIn, SessionIn)

SpecOptions == Init /\ [][NextOptions]_vars

\* negotiate_telnet alone, up to its return, with the sub-negotiation
\* specification's inputs and no signal arriving
NextSubneg ==
    \/ ConnectionClosed
    \/ NegotiateStart
    \/ NegotiateGetc(SubDataIn)
    \/ NegotiateCommand(SubCmdIn)
    \/ NegotiateOption(SubOptIn)

SpecSubneg == Init /\ [][NextSubneg]_vars

(***************************************************************************)
(* The line editor alone: readline(username, ..., 0) or                    *)
(* readline(password, ..., 1) has just been entered in the first turn of   *)
(* the session loop, after a handshake that two sub-negotiations ended     *)
(* (for the password, after the username "a" was read), and the peer       *)
(* types bytes of EditIn.                                                  *)
(***************************************************************************)
InitEditor ==
    LET r == set_options(ZeroTable, ZeroTable, ZeroTable, ZeroTable)
    IN  /\ pc = "rl"
        /\ eof = FALSE
        /\ closed = FALSE
        /\ exit_code = -1
        /\ alarm_armed = FALSE
        /\ telnet_options = r.options
        /\ telnet_willack = r.willack
        /\ telnet_do_set = r.do_set
        /\ telnet_will_set = r.will_set
        /\ neg_i = 0
        /\ sb = ZeroSb
        /\ sb_len = 0
        /\ sb_mode = 0
        /\ done = 0
        /\ term = AnsiTerm
        /\ terminal_width = 80
        /\ do_echo = 0
        /\ field \in {"username", "password"}
        /\ out = (IF field = "username" THEN TxtUsername ELSE TxtPassword) \o TxtShowCursor
        /\ obuf = Image(<<>>, Commands(r.out) \o WelcomeWrites \o PromptWrites(TxtUsername)
                              \o (IF field = "username" THEN <<>>
                                  ELSE << Chars(<<97>>),
                                          Chars(newline(1)) \o <<Str(TxtHideCursor)>> >>
                                       \o PromptWrites(TxtPassword)))
        /\ handlers = <<>>
        /\ interrupted = "none"
        /\ rl_i = 0
        /\ rl_c = 0
        /\ username = IF field = "username" THEN FreshLine
                      ELSE [FreshLine EXCEPT ![0] = 97]
        /\ password = FreshLine
        /\ logfile = <<>>
        /\ attempts = 1
        /\ received = TRUE
        /\ ended_by = "resolved"
        /\ fin = <<>>
        /\ rl_out = TxtShowCursor

NextEditor ==
    \/ ConnectionClosed
    \/ ReadlineGetc(EditIn)

SpecEditor == InitEditor /\ [][NextEditor]_vars

(***************************************************************************)
(* The specifications with fairness run the session on few different       *)
(* bytes (a field is typed in letters until its buffer is full), with the  *)
(* end of the stream wherever a byte is awaited.  SIGALRM comes from the   *)
(* alarm of line 243 alone; SIGINT may come from another process at any    *)
(* time, and need not come.                                                *)
(***************************************************************************)
EofDataIn == {IAC, TTYPE}
EofCmdIn == {SE, SB, WILL, IAC}
EofOptIn == {TTYPE}
EofSessionIn == {97}

\* line 243: the alarm of alarm(1) goes off
AlarmGoesOff == alarm_armed /\ Deliver("SIGALRM")

NextEof ==
    \/ ConnectionClosed
    \/ NegotiateStart
    \/ NegotiateGetc(EofDataIn)
    \/ NegotiateCommand(EofCmdIn)
    \/ NegotiateOption(EofOptIn)
    \/ AlarmGoesOff
    \/ Deliver("SIGINT")
    \/ SIGALRM_handler(EofCmdIn, EofOptIn, EofSessionIn)
    \/ SIGINT_handler(EofCmdIn, EofOptIn, EofSessionIn)
    \/ Welcome
    \/ PromptUsername
    \/ ReadlineGetc(EofSessionIn)
    \/ PromptPassword
    \/ LogAttempt
    \/ RejectAttempt
    \/ ClearScreen

(***************************************************************************)
(* Fairness: a pending alarm goes off, and the process runs the code that  *)
(* waits for no input, that of an entered handler included.  A getc waits  *)
(* for the peer, who owes nothing.                                         *)
(***************************************************************************)
NoInputStep ==
    \/ NegotiateStart
    \/ Welcome
    \/ PromptUsername
    \/ PromptPassword
    \/ LogAttempt
    \/ RejectAttempt
    \/ ClearScreen
    \/ SIGALRM_handler(EofCmdIn, EofOptIn, EofSessionIn)
    \/ SIGINT_handler(EofCmdIn, EofOptIn, EofSessionIn)

FairSpec ==
    Init /\ [][NextEof]_vars /\ WF_vars(AlarmGoesOff) /\ WF_vars(NoInputStep)

\* a getc on a stream that has ended: it returns EOF at once
EofRead ==
    /\ eof
    /\ \/ NegotiateGetc(EofDataIn)
       \/ NegotiateCommand(EofCmdIn)
       \/ NegotiateOption(EofOptIn)
       \/ ReadlineGetc(EofSessionIn)

\* the process runs whenever it does not wait for the peer, and a getc
\* does not wait once the stream has ended
FairSpecEof == Init /\ [][NextEof]_vars /\ WF_vars(NoInputStep \/ EofRead)
(***************************************************************************)
(*                              The claims                                 *)
(***************************************************************************)
Verbs == {DO, DONT, WILL, WONT}

\* the agreed value send_command compares verb cmd with: telnet_do_set for
\* DO/DONT, telnet_will_set for WILL/WONT
Agreed(cmd, opt, ds, ws) == IF cmd = DO \/ cmd = DONT THEN ds[opt] ELSE ws[opt]

\* C1: in every state from which the code calls send_command (before
\* set_options, and when the option of a peer command is about to be read),
\* for every verb in {DO, DONT, WILL, WONT} and every option 0..255:
\* send_command writes IAC verb option if and only if the agreed value of
\* the verb's direction differs from the verb; when it writes, that value
\* becomes the verb and nothing else changes; when it does not write, both
\* tables are unchanged.  And handling the same peer command a second time
\* right after the first writes no negotiation reply.
C1_SendOnlyOnDisagreement ==
    pc \in {"start", "neg_opt"} =>
    \A cmd \in Verbs, opt \in Options :
        LET r == send_command(cmd, opt, telnet_do_set, telnet_will_set)
            differs == Agreed(cmd, opt, telnet_do_set, telnet_will_set) # cmd
            once == negotiate_option(cmd, opt, Registry)
            twice == negotiate_option(cmd, opt, once)
        IN  /\ r.out = IF differs THEN <<IAC, cmd, opt>> ELSE <<>>
            /\ (differs /\ (cmd = DO \/ cmd = DONT)) =>
                   /\ r.do_set = [telnet_do_set EXCEPT ![opt] = cmd]
                   /\ r.will_set = telnet_will_set
            /\ (differs /\ (cmd = WILL \/ cmd = WONT)) =>
                   /\ r.will_set = [telnet_will_set EXCEPT ![opt] = cmd]
                   /\ r.do_set = telnet_do_set
            /\ ~differs => r.do_set = telnet_do_set /\ r.will_set = telnet_will_set
            /\ twice.reply = <<>>

\* C1 witness: send_command has just answered a peer DO TTYPE: the agreed
\* value DO of set_options differed from DONT, the reply was written and the
\* agreed value is DONT
C1_Witness ==
    /\ pc = "neg"
    /\ out = <<IAC, DONT, TTYPE>>
    /\ telnet_do_set[TTYPE] = DONT

\* the step is a turn of the handshake loop that read a byte of data
DataStep == pc = "neg" /\ pc' \in {"neg", "neg_ret"}

\* the step is a case SE that counted a capability (case IAC sets done to 2
\* and ends the loop otherwise)
CountedSE ==
    /\ pc = "neg_cmd"
    /\ done' = done + 1
    /\ done' = 2 => ended_by' = "resolved"

\* C2: whatever the peer sends, sb_len stays in 0..capacity-1 and the last
\* byte of sb is never written (it stays zero); a step changes sb only by
\* clearing it at SB or by storing one byte at index sb_len < capacity-1 in
\* sub-negotiation mode; a byte of data that arrives when sb_len is
\* capacity-1, or outside sub-negotiation mode, is dropped; and the terminal
\* type or width captured at SE is read from the stored bytes alone: the
\* string at sb[2] (at most capacity-3 bytes), or the byte sb[2] as a char.
C2_BoundedSubnegotiation ==
    /\ [](/\ sb_len \in 0..(SbSize - 1)
          /\ sb[SbSize - 1] = 0
          /\ \A k \in sb_len..(SbSize - 1) : sb[k] = 0)
    /\ [][/\ sb' # sb =>
               \/ sb' = ZeroSb /\ sb_len' = 0
               \/ /\ DataStep /\ sb_mode = 1
                  /\ sb_len < SbSize - 1
                  /\ sb_len' = sb_len + 1
                  /\ \A k \in 0..(SbSize - 1) : k # sb_len => sb'[k] = sb[k]
          /\ (DataStep /\ (sb_len = SbSize - 1 \/ sb_mode = 0)) =>
               (sb' = sb /\ sb_len' = sb_len)
          /\ (CountedSE /\ sb[0] = TTYPE) =>
               /\ term' = CStr(sb, 2, SbSize)
               /\ Len(term') <= SbSize - 3
               /\ terminal_width' = terminal_width
          /\ (CountedSE /\ sb[0] # TTYPE) =>
               /\ sb[0] = NAWS
               /\ terminal_width' \in CharToInt(sb[2])
               /\ term' = term
         ]_vars

\* C2 witness: a terminal type was captured from a buffer the peer filled to
\* the limit, and the handshake went on to a second sub-negotiation that is
\* full as well
C2_Witness ==
    /\ done = 1
    /\ term = <<120>>
    /\ sb_mode = 1
    /\ sb_len = SbSize - 1
    /\ sb[0] = NAWS
    /\ pc = "neg"

\* the byte the step's getc of readline returned
ByteRead == fin'[Len(fin')]

\* the step is a getc of readline returning
ReadStep == pc \in {"rl", "rl_nul"} /\ Len(fin') = Len(fin) + 1

\* the step handles ByteRead as the character c of a turn of the loop (a
\* zero read by the getc of line 109 is only replaced)
TurnStep == ReadStep /\ ~(pc = "rl" /\ ByteRead = 0)

\* C3: with a buffer of capacity N = LineSize, for any bytes typed: the
\* cursor i is in 0..N-1 after every byte, and below N-1 whenever readline
\* waits for a byte, so that the store buffer[i] = c of a turn has
\* 0 <= i < N-1 and changes that byte only; the terminating zero is written
\* at index i in 0..N-1; a backspace or delete at cursor 0 leaves the cursor
\* at 0.
C3_CursorInBounds ==
    /\ [](/\ rl_i \in 0..(LineSize - 1)
          /\ pc \in {"rl", "rl_nul"} => rl_i \in 0..(LineSize - 2)
          /\ pc = "rl_ret" => Buffer[rl_i] = 0)
    /\ [][TurnStep =>
            /\ rl_i' \in 0..(LineSize - 1)
            /\ (pc' # "exited" /\ ByteRead \in {8, 127} /\ rl_i = 0) =>
                   (rl_i' = 0 /\ pc' = "rl")
            /\ (pc' # "exited" /\ ByteRead \notin {8, 10, 13, 127}) =>
                   /\ rl_i \in 0..(LineSize - 2)
                   /\ rl_i' = rl_i + 1
                   /\ Buffer'[rl_i] = ByteRead
                   /\ \A k \in 0..(LineSize - 1) :
                         (k # rl_i /\ ~(pc' = "rl_ret" /\ k = rl_i')) =>
                             Buffer'[k] = Buffer[k]
         ]_vars

\* C3 witness: the first byte typed was a backspace at cursor 0, then the
\* field was filled: readline returned with the cursor, and the terminating
\* zero, at N-1
C3_Witness ==
    /\ pc = "rl_ret"
    /\ field = "username"
    /\ Len(fin) = LineSize
    /\ fin[1] = 8
    /\ rl_i = LineSize - 1
    /\ Buffer[LineSize - 1] = 0

\* readline fed the bytes of seq one after the other, from call st on, until
\* they are used up or the call has returned or exited
RECURSIVE RunReadline(_, _, _)
RunReadline(seq, st, pw) ==
    IF seq = <<>> \/ st.pc \notin {"rl", "rl_nul"} THEN st
    ELSE RunReadline(Tail(seq), readline_getc(st, Head(seq), LineSize, pw), pw)

NotNul(b) == b # 0

\* the input with its NUL bytes removed
StripNul(seq) == SelectSeq(seq, NotNul)

\* readline of the current field on the input typed so far without its NULs
WithoutNuls == RunReadline(StripNul(fin), readline_enter(FreshLine, LineSize, FALSE), Mask)

\* C4 (the claim as stated): readline discards every NUL it meets: after any
\* input, the cursor, the bytes written to the peer and, once readline has
\* returned, the returned string are those of the same input without its
\* NUL bytes; no NUL is stored below the cursor, and none is echoed while
\* the field is being typed.
C4_NulsDiscarded ==
    pc \in {"rl", "rl_nul", "rl_ret"} =>
        /\ rl_i = WithoutNuls.i
        /\ rl_out = WithoutNuls.out
        /\ (pc = "rl_ret") = (WithoutNuls.pc = "rl_ret")
        /\ pc = "rl_ret" => Line(Buffer) = Line(WithoutNuls.buffer)
        /\ \A k \in 0..(rl_i - 1) : Buffer[k] # 0
        /\ pc # "rl_ret" => \A k \in 1..Len(rl_out) : rl_out[k] # 0

\* the peer has delivered nothing so far and keeps the connection open
SilentPeer == ~received /\ ~eof /\ ~closed

\* the bytes whole end with the bytes part
EndsWith(whole, part) ==
    /\ Len(whole) >= Len(part)
    /\ SubSeq(whole, Len(whole) - Len(part) + 1, Len(whole)) = part

\* the process was ended by SIGALRM_handler: the banner is the last thing
\* written, _exit(EXIT_FAILURE)
TimedOut ==
    /\ pc = "exited"
    /\ exit_code = EXIT_FAILURE
    /\ EndsWith(out, TxtBanner)
    /\ ~alarm_armed

\* the process was ended by SIGINT_handler, the handler entered last:
\* _exit(EXIT_SUCCESS) of line 64, not the one of readline
EndedBySIGINT ==
    /\ pc = "exited"
    /\ exit_code = EXIT_SUCCESS
    /\ handlers # <<>>
    /\ handlers[Len(handlers)] = "SIGINT"

\* C5 (the claim as stated, an interrupt by SIGINT that ends the process
\* left aside): while the peer has sent nothing on an open stream no
\* prompt is written, nothing is logged and the alarm is pending while the
\* process waits in the first getc of the handshake; and the silence does
\* not last for ever: the alarm of negotiate_telnet goes off, the banner is
\* written and the process exits.
C5_SilentPeerTimedOut ==
    /\ [](SilentPeer =>
            /\ pc = "neg" => alarm_armed
            /\ logfile = <<>>
            /\ attempts = 0
            /\ field = "none")
    /\ <>(~SilentPeer \/ TimedOut \/ EndedBySIGINT)
\* the process is inside the loop of negotiate_telnet
InHandshake == pc \in {"neg", "neg_cmd", "neg_opt"}

\* C6 (the claim as stated): while the handshake runs with fewer than two
\* capabilities resolved the alarm stays pending, so on a stream the peer
\* keeps open the handshake does not last forever: it ends, or the alarm
\* ends the process with the banner.
C6_TimerArmedUntilResolved ==
    /\ []((InHandshake /\ done < 2) => alarm_armed)
    /\ <>(eof \/ ~(InHandshake \/ pc = "start"))

\* the payload a sub-negotiation stored after its two leading bytes
Payload(sbuf, len) == [k \in 1..(len - 2) |-> sbuf[k + 1]]

\* sb holds a terminal-type sub-negotiation TTYPE IS <name>, the name not empty
TtypeStored ==
    /\ sb[0] = TTYPE
    /\ sb_len >= 3
    /\ \A k \in 2..(sb_len - 1) : sb[k] # 0

\* sb holds a window-size sub-negotiation NAWS <width high> <width low> ...
NawsStored == sb[0] = NAWS /\ sb_len >= 3

\* C7 (the claim as stated): the snapshot starts as "ansi" and 80; the SE
\* that closes a terminal-type sub-negotiation sets term to the announced
\* name and leaves the width, the SE that closes a window-size
\* sub-negotiation sets terminal_width to the announced two-byte width and
\* leaves the name, and no other step of the handshake changes either, so
\* that the snapshot at the end holds what the peer announced, in either
\* order.
C7_SnapshotAsAnnounced ==
    /\ [](pc = "start" => (term = AnsiTerm /\ terminal_width = 80))
    /\ [][/\ (CountedSE /\ TtypeStored) =>
               /\ term' = Payload(sb, sb_len)
               /\ terminal_width' = terminal_width
          /\ (CountedSE /\ NawsStored) =>
               /\ terminal_width' = NawsWidth(sb[1], sb[2])
               /\ term' = term
          /\ (InHandshake /\ ~CountedSE) =>
               (term' = term /\ terminal_width' = terminal_width)
         ]_vars

\* the input of the current field ends with a line terminator
Terminated == fin # <<>> /\ fin[Len(fin)] \in {10, 13}

\* the characters of the current field as typed: its input before the
\* terminator (the session's input has no editing bytes)
Typed == SubSeq(fin, 1, Len(fin) - 1)

\* the step hands the finished identifier over and starts the secret
IdentifierDone == field = "username" /\ field' = "password"

\* C8 (the claim as stated): there is one log write per attempt, after the
\* secret's read (one tuple per attempt begun, less the attempt still being
\* typed); the identifier is final when the secret is prompted and the
\* secret when the log is written, each finalized by a line terminator and
\* equal to what was typed; the identifier is untouched while the secret is
\* typed; and the tuple written is (peer address, identifier, secret) of
\* that attempt.
C8_OneTuplePerAttempt ==
    /\ [](/\ Len(logfile) <= attempts
          /\ pc \in {"logged", "rejected", "loop"} => Len(logfile) = attempts
          /\ pc \in {"rl", "rl_nul", "rl_ret"} => Len(logfile) = attempts - 1)
    /\ [][/\ IdentifierDone =>
               /\ pc = "rl_ret"
               /\ Terminated
               /\ Line(username) = Typed
          /\ (field = "password" /\ field' = "password") => username' = username
          /\ logfile' # logfile =>
               /\ pc = "rl_ret" /\ field = "password"
               /\ Terminated
               /\ Line(password) = Typed
               /\ logfile' = Append(logfile, <<ipaddr, Line(username), Line(password)>>)
               /\ pc' = "logged"
         ]_vars

\* C9 (the claim as stated): once the handshake loop has ended on IAC IAC
\* the session prompts for no username, reads no field and logs nothing.
C9_DoubledEscapeAborts ==
    ended_by = "doubled_iac" =>
        /\ attempts = 0
        /\ field = "none"
        /\ pc \notin {"rl", "rl_nul", "rl_ret", "logged", "rejected"}
        /\ logfile = <<>>

\* C10 (the claim as stated): readline returns only on a line terminator:
\* whenever a call has returned, the last byte it read is \n or \r, also
\* when the field had filled the buffer.
C10_ReturnsOnTerminatorOnly ==
    pc = "rl_ret" =>
        /\ fin # <<>>
        /\ fin[Len(fin)] \in {10, 13}
        /\ rl_c \in {10, 13}

\* C11 (the claim as stated): once a getc has hit the end of the stream, it
\* stays ended, no readline is waiting or has returned a field, and no step
\* writes to the log; and the session terminates: the process exits.
C11_EndOfStreamTerminates ==
    /\ [](eof => pc \notin {"rl", "rl_nul", "rl_ret", "logged", "rejected"})
    /\ [][eof => eof']_vars
    /\ [][eof' => logfile' = logfile]_vars
    /\ eof ~> (pc = "exited")
\* an ordinary character: not a terminator, backspace, delete, NUL, 0xff
\* or the end of the stream
Ordinary(b) == b \notin {10, 13, 8, 127, 0, 255, EOF}

\* the input with every ordinary character replaced by the same one: what
\* two inputs of the same shape have in common
Shape(seq) == [k \in 1..Len(seq) |-> IF Ordinary(seq[k]) THEN 97 ELSE seq[k]]

\* the masked readline on the shape of the input typed so far
OnShape == RunReadline(Shape(fin), readline_enter(FreshLine, LineSize, FALSE), 1)

\* SIGPIPE has ended the process: the peer had closed the connection
Refused == exit_code = KilledBy(SIGPIPE)

\* C12: in a masked read, everything written to the peer, the cursor and
\* whether the call has returned or exited are those of the run on the
\* input's shape, so that inputs of one shape give one output; no
\* ordinary character typed appears in the output, and the turn that
\* accepts one writes '*' for it.  On a connection the peer closes the
\* process ends at the write it refuses, and the step that reads a byte
\* and is ended there has sent nothing, or the '*' alone: no typed
\* character either.
C12_MaskedOutputHidesCharacters ==
    /\ []((field = "password" /\ ~Refused) =>
            /\ rl_out = OnShape.out
            /\ rl_i = OnShape.i
            /\ pc = OnShape.pc
            /\ \A k \in 1..Len(rl_out) : \A j \in 1..Len(fin) :
                   Ordinary(fin[j]) => rl_out[k] # fin[j])
    /\ [][(field = "password" /\ TurnStep /\ Ordinary(ByteRead) /\ ~Refused') =>
            /\ out'[1] = 42
            /\ out' \in {<<42>>, <<42>> \o TxtHideCursor}]_vars
    /\ [][(field = "password" /\ ReadStep /\ Refused') =>
            /\ out' \in {<<>>, <<42>>}
            /\ rl_out' = rl_out]_vars

\* C12 witness: a password read took two different characters and returned
C12_Witness ==
    /\ field = "password"
    /\ pc = "rl_ret"
    /\ fin = <<97, 98>>
    /\ rl_out = TxtShowCursor \o <<42, 42>> \o TxtHideCursor

\* the reference editor of a field on the bytes seq, from the string s:
\* a NUL is dropped, a backspace or delete leaves an empty string empty,
\* empties a masked one and removes the last character of an unmasked one,
\* any other byte is appended
RECURSIVE RefEdit(_, _, _)
RefEdit(seq, s, pw) ==
    IF seq = <<>> THEN s
    ELSE LET b == Head(seq)
         IN  RefEdit(Tail(seq),
                     IF b = 0 THEN s
                     ELSE IF b \in {8, 127}
                     THEN IF s = <<>> \/ pw # 0 THEN <<>> ELSE SubSeq(s, 1, Len(s) - 1)
                     ELSE Append(s, b),
                     pw)

\* C13 (the claim as stated): when readline has returned, its input ends
\* with the first line terminator, the returned string is the reference
\* editor's result on the bytes before it, and the cursor is that
\* string's length.
C13_ReturnsReferenceEdit ==
    pc = "rl_ret" =>
        /\ Terminated
        /\ Line(Buffer) = RefEdit(Typed, <<>>, Mask)
        /\ rl_i = Len(RefEdit(Typed, <<>>, Mask))

\* the step handles the option of a peer WILL/WONT/DO/DONT the peer has sent
OptionStep == pc = "neg_opt" /\ pc' \in {"neg", "neg_ret"} /\ ~eof'

\* the bytes written without the terminal-type request that may end them
Reply(bytes) ==
    LET n == Len(bytes) - Len(TtypeRequest)
    IN  IF n >= 0 /\ SubSeq(bytes, n + 1, Len(bytes)) = TtypeRequest
        THEN SubSeq(bytes, 1, n) ELSE bytes

\* the reply written is empty or one negotiation command with a verb of vs
ReplyIn(vs, bytes) ==
    Reply(bytes) # <<>> =>
        (Len(Reply(bytes)) = 3 /\ bytes[1] = IAC /\ bytes[2] \in vs)

\* C14 (the claim as stated): the step for a peer WILL or WONT replies, if
\* at all, with DO or DONT and leaves telnet_will_set alone; the step for a
\* peer DO or DONT replies, if at all, with WILL or WONT and leaves
\* telnet_do_set alone; this holds for undeclared options too, refused in
\* the direction of the peer's command.
C14_RepliesInDirection ==
    [][/\ (OptionStep /\ neg_i \in {WILL, WONT}) =>
            /\ ReplyIn({DO, DONT}, out')
            /\ telnet_will_set' = telnet_will_set
       /\ (OptionStep /\ neg_i \in {DO, DONT}) =>
            /\ ReplyIn({WILL, WONT}, out')
            /\ telnet_do_set' = telnet_do_set
      ]_vars

\* where the process is in its own code: inside a signal handler, where
\* the handler has interrupted it
Position == IF pc \in {"handler", "hung"} THEN interrupted ELSE pc

\* the phase of the session; it is terminated when the process has exited.
\* A signal handler leaves the phase as it is: it ends the process or
\* waits for ever, and the session goes no further
Phase ==
    IF Position = "exited" THEN "terminated"
    ELSE IF Position \in {"start", "neg", "neg_cmd", "neg_opt", "neg_ret"} THEN "negotiation"
    ELSE IF Position = "loop" THEN "top"
    ELSE IF Position \in {"rl", "rl_nul", "rl_ret"} /\ field = "username" THEN "identifier"
    ELSE IF Position \in {"rl", "rl_nul", "rl_ret"} /\ field = "password" THEN "secret"
    ELSE IF Position = "logged" THEN "logged"
    ELSE IF Position = "rejected" THEN "rejected"
    ELSE "other"

\* the phases that may follow phase p in one step
PhaseAfter(p) ==
    {p, "terminated"} \cup
    (IF p = "negotiation" THEN {"top"}
     ELSE IF p = "top" THEN {"identifier"}
     ELSE IF p = "identifier" THEN {"secret"}
     ELSE IF p = "secret" THEN {"logged"}
     ELSE IF p = "logged" THEN {"rejected"}
     ELSE IF p = "rejected" THEN {"top"}
     ELSE {})

\* the bytes part occur in the bytes whole, one after the other
Contains(whole, part) ==
    \/ part = <<>>
    \/ LET first == part[1]
           last == Len(part) - 1
       IN  \E k \in 1..(Len(whole) - last) :
               whole[k] = first /\ SubSeq(whole, k, k + last) = part

\* C15: the session is always in one of the phases negotiation, top of the
\* loop, identifier read, secret read, logged, rejected or terminated, and
\* a step moves it only along negotiation -> top -> identifier -> secret ->
\* logged -> rejected -> top, or to termination, which is final; so
\* negotiation happens once, first. The identifier is prompted and echoed
\* as typed, the secret is prompted and echoed as '*', the log is written
\* on leaving the secret read, the only way on from a logged attempt is
\* the message of invalid credentials, and from there the cleared screen
\* at the top of the loop, where the next prompt is still to come.  A
\* signal handler moves the session to no other phase: it ends the
\* process, or waits for ever in the phase it has interrupted.  A write
\* to a connection the peer has closed ends the process as well.
C15_PhaseOrder ==
    /\ [](Phase # "other")
    /\ [][/\ Phase' \in PhaseAfter(Phase)
          /\ (Phase = "top" /\ Phase' = "identifier") =>
                 (Contains(out', TxtUsername) /\ attempts' = attempts + 1)
          /\ (Phase = "identifier" /\ Phase' = "secret") =>
                 (pc = "rl_ret" /\ Contains(out', TxtPassword))
          /\ (Phase = "secret" /\ Phase' = "logged") =>
                 (pc = "rl_ret" /\ Len(logfile') = Len(logfile) + 1)
          /\ Phase' # "logged" => logfile' = logfile
          /\ (Phase = "logged" /\ Phase' = "rejected") => Contains(out', TxtInvalid)
          /\ (Phase = "rejected" /\ Phase' = "top") => ~Contains(out', TxtUsername)
          /\ (TurnStep /\ Ordinary(ByteRead) /\ pc' # "exited") =>
                 out'[1] = (IF Phase = "secret" THEN 42 ELSE ByteRead)
         ]_vars

\* C15 witness: the loop is in its second turn, after the second log write
C15_Witness ==
    /\ pc = "logged"
    /\ attempts = 2
    /\ Len(logfile) = 2
    /\ ended_by = "resolved"

\* the bytes written end with the terminal-type request, and it occurs
\* nowhere else in them
RequestLast(bytes) ==
    /\ Reply(bytes) # bytes
    /\ ~Contains(Reply(bytes), TtypeRequest)
    /\ Reply(bytes) = <<>> \/ (Len(Reply(bytes)) = 3 /\ bytes[1] = IAC)

\* the bytes whole begin with the bytes part
BeginsWith(whole, part) ==
    Len(whole) >= Len(part) /\ SubSeq(whole, 1, Len(part)) = part

\* the step is a signal handler that has interrupted the handling of a
\* peer WILL TTYPE after the request was written: the peer has the reply,
\* if there is one, and the request (a second time if the handler's fflush
\* comes inside the fflush of line 288), and then nothing more of the
\* process: only the banner of SIGALRM_handler, after the string of
\* SIGINT_handler if that was entered first
RequestInterrupted ==
    /\ pc = "handler"
    /\ interrupted = "neg_opt"
    /\ neg_i = WILL
    /\ \E again \in {<<>>, TtypeRequest} :
       \E end \in {<<>>, TxtBanner, TxtReset \o TxtBanner} :
           out' = Bytes(OptionWrites(WILL, TTYPE, Registry)) \o again \o end

\* C16: a step writes the terminal-type request only when it handles the
\* option of a peer WILL, after the reply if there is one: as the last
\* thing the step writes, or in a signal handler that has interrupted that
\* step and ends the process after it; set_options and every other step
\* write none (a step the closed connection ends has sent the reply at
\* most).  And the handling of verb neg_i with option opt writes it
\* exactly for WILL with the terminal-type option: not for WONT TTYPE, WILL
\* of another option or any DO/DONT.
C16_TtypeRequestOnWillTtype ==
    /\ [][Contains(out', TtypeRequest) =>
            \/ /\ pc = "neg_opt"
               /\ neg_i = WILL
               /\ RequestLast(out')
            \/ RequestInterrupted]_vars
    /\ [](pc = "neg_opt" =>
            \A opt \in Options :
                LET r == negotiate_option(neg_i, opt, Registry)
                IN  /\ Contains(r.out, TtypeRequest) = (neg_i = WILL /\ opt = TTYPE)
                    /\ (neg_i = WILL /\ opt = TTYPE) => r.out = r.reply \o TtypeRequest
                    /\ Bytes(OptionWrites(neg_i, opt, Registry)) = r.out)

\* C16 witness: a peer WILL TTYPE has just been handled: the reply IAC DO
\* TTYPE (the peer had made the server withdraw it) and then the request
C16_Witness ==
    /\ pc = "neg"
    /\ out = <<IAC, DO, TTYPE>> \o TtypeRequest

\* the peer commands replayed, and how many of them in a row
ReplayCommands == {WILL, WONT, DO, DONT} \X {TTYPE, ECHO, 5}
MaxReplay == 3

\* the negotiation commands the server writes in answer to the peer
\* commands cmds, one after the other, from the tables t on
RECURSIVE Replies(_, _)
Replies(cmds, t) ==
    IF cmds = <<>> THEN <<>>
    ELSE LET r == negotiate_option(Head(cmds)[1], Head(cmds)[2], t)
         IN  r.reply \o Replies(Tail(cmds), r)

\* no IAC verb option triple occurs twice in bytes, a sequence of triples
NoRepeat(bytes) ==
    \A j, k \in 0..((Len(bytes) \div 3) - 1) :
        j < k => SubSeq(bytes, 3 * j + 1, 3 * j + 3) # SubSeq(bytes, 3 * k + 1, 3 * k + 3)

\* the sequences of 0..n elements of S
RECURSIVE SeqsUpTo(_, _)
SeqsUpTo(S, n) ==
    IF n = 0 THEN {<<>>}
    ELSE LET shorter == SeqsUpTo(S, n - 1)
         IN  shorter \cup {Append(s, x) : s \in shorter, x \in S}

\* C17 (the claim as stated): right after set_options, whose output is in
\* out, whatever commands the peer sends next, the commands set_options
\* wrote followed by the replies to the peer's have no command twice.
C17_NoCommandTwice ==
    (pc = "neg" /\ ~received /\ ~eof) =>
        \A cmds \in SeqsUpTo(ReplayCommands, MaxReplay) :
            NoRepeat(out \o Replies(cmds, Registry))

\* the capability counted before was the window size: terminal_width has
\* left its default (no announced width is 80 with the inputs SubDataIn)
WidthResolved == terminal_width # 80

\* C18 (the claim as stated): an SE counts as a resolution only if it
\* closes a sub-negotiation its own SB opened (sb_mode is 1: an SB was
\* read since the last SE), and the second resolution counted is of the
\* other kind than the first: terminal type after window size, or window
\* size after terminal type.
C18_DistinctBracketedResolutions ==
    [][CountedSE =>
          /\ sb_mode = 1
          /\ done = 1 => ((sb[0] = TTYPE) = WidthResolved)
      ]_vars

\* C19 (the claim as stated): from the first username prompt on, no alarm
\* is pending while the process runs, so the alarm of negotiate_telnet
\* cannot make SIGALRM_handler run in the session loop.
C19_TimerOffInSession ==
    (attempts > 0 /\ pc # "exited") => ~alarm_armed
\* C20 (the claim as stated): if a tuple has been logged, the handshake
\* loop of the session ended on its second counted sub-negotiation.
C20_LoggedOnlyAfterResolution ==
    logfile # <<>> => ended_by = "resolved"

====
